---- MODULE Spec2Model ----
(***************************************************************************)
(* A model of the access-control backend: the relational store (users,     *)
(* devices, communities, memberships, keysets, events, nonces_seen), the   *)
(* HTTP handlers of main.py that read and write it, the key creators       *)
(* (init_keys at server startup, seed_database), and the tokens that       *)
(* sign_token hands to mobile devices.                                     *)
(*                                                                         *)
(* Columns that no handler ever reads back (created_at, registered_at,     *)
(* updated_at, approved_by, platform, User.status, Community.name and      *)
(* description) are left out of the rows; every other column is kept.       *)
(***************************************************************************)
EXTENDS Integers, Sequences, FiniteSets, TLC

(***************************************************************************)
(* Input domains and bounds.                                               *)
(***************************************************************************)
\* request user ids: one of seed_db.py's demo users and one other
UserIds == {"user001", "u2"}
\* request device ids: one of seed_db.py's demo devices and one other
DeviceIds == {"android_device_001", "d2"}
\* request phone numbers: user001's demo phone and one other
Phones == {"+1234567890", "p2"}
\* request community ids: one that init_keys creates and one that nothing creates
RequestCommunities == {"apt101", "lab"}
\* SignTokenRequest.type
TokenTypes == {"entry", "exit"}
\* the communities init_keys and seed_database create, in their order
KeyedCommunities == <<"apt101", "public_parking", "gym_access">>
\* token lifetime in seconds
TTL == 30
\* the UTC clock (epoch seconds) when the model starts
Epoch0 == 1000
\* the UTC offsets of the zones a server may run in: UTC, UTC+05:30, UTC-05:00
TzOffsets == {0, 19800, -18000}
\* how many tokens the mobile devices ask for and keep
MaxHeld == 2
\* how many seconds the clock runs on
MaxElapsed == 32
\* how many presentations the door controller sees
MaxPresentations == 2
\* how many rows the events table may hold in the model
MaxEvents == 1
\* how many rows it may hold where the event log itself is looked at
MaxLogged == 2
\* server processes that may start, and the seeding script
Servers == {"server1", "server2"}

VARIABLES
    users,        \* table users: set of [user_id, phone]
    devices,      \* table devices: set of [device_id, user_id]
    communities,  \* table communities: set of community_id
    memberships,  \* table memberships: sequence of rows, membership_id = index
    keysets,      \* table keysets: sequence of rows, keyset_id = index
    events,       \* table events: sequence of rows, event_id = index
    nonces_seen,  \* table nonces_seen: set of rows
    now,          \* the UTC wall clock, epoch seconds
    tz,           \* the server's local UTC offset in seconds
    pc,           \* per process: where it is
    pending,      \* per process: rows added to its session, not yet committed
    response,     \* the last HTTP response sent
    held,         \* tokens that sign_token has returned to mobile devices
    edge,         \* the door controller: its replay ledger and its verdicts
    wire          \* one token in its transport form, and what is read back

db == <<users, devices, communities, memberships, keysets, events, nonces_seen>>
vars == <<users, devices, communities, memberships, keysets, events, nonces_seen,
          now, tz, pc, pending, response, held, edge, wire>>

(***************************************************************************)
(* Key material.  SigningKey.generate() draws a fresh random seed; the     *)
(* model names a keypair by the process that generated it and the          *)
(* community it was generated for, which is unique per generation.         *)
(***************************************************************************)
KeyPair(creator, comm) == [by |-> creator, for |-> comm]
public_key(kp) == [kind |-> "public", of |-> kp]
private_key(kp) == [kind |-> "private", of |-> kp]
\* Ed25519 signing is deterministic in (private key, message)
Sign(priv, msg) == [kind |-> "signature", of |-> priv.of, msg |-> msg]
\* Ed25519 verification under a public key
Verify(pub, msg, sig) == sig.of = pub.of /\ sig.msg = msg

(***************************************************************************)
(* Queries.  Query.first() adds LIMIT 1 to an unordered SELECT; on the     *)
(* SQLite table scan these queries run as, that is the row of lowest id.   *)
(***************************************************************************)
Range(s) == {s[i] : i \in DOMAIN s}

Min(S) == CHOOSE x \in S : \A y \in S : x <= y

\* .first(): the lowest of the matching row indices, 0 if there is none
FirstIndex(hits) == IF hits = {} THEN 0 ELSE Min(hits)

DeviceById(device_id) == {d \in devices : d.device_id = device_id}
UserById(user_id) == {u \in users : u.user_id = user_id}

membership_first(user_id, community_id) ==
    FirstIndex({i \in DOMAIN memberships :
                   /\ memberships[i].user_id = user_id
                   /\ memberships[i].community_id = community_id})

active_keyset_first(community_id) ==
    FirstIndex({i \in DOMAIN keysets :
                   /\ keysets[i].community_id = community_id
                   /\ keysets[i].active})

Keyset(community_id, creator) ==
    [community_id |-> community_id,
     public_key   |-> public_key(KeyPair(creator, community_id)),
     private_key  |-> private_key(KeyPair(creator, community_id)),
     active       |-> TRUE]

Serving == \E p \in Servers : pc[p] = "serving"

Err(op, status, detail) == [op |-> op, status |-> status, body |-> [detail |-> detail]]
Ok(op, body) == [op |-> op, status |-> 200, body |-> body]
NoResponse == [op |-> "none", status |-> 0, body |-> [detail |-> ""]]

(***************************************************************************)
(* A session: the rows a process has added with db.add and not yet         *)
(* committed, the loop it is in (seed_database has five) and its index.    *)
(* autoflush is off, so a pending row is invisible to the session's own    *)
(* queries until the commit.                                               *)
(***************************************************************************)
EmptySession ==
    [stage |-> 1, i |-> 1, communities |-> {}, keysets |-> <<>>, users |-> {},
     devices |-> {}, memberships |-> <<>>]

(***************************************************************************)
(* init_keys, one query at a time.                                         *)
(***************************************************************************)
\* the community query of iteration sess.i and the db.add it guards
ik_community(sess) ==
    LET comm_id == KeyedCommunities[sess.i]
    IN  IF comm_id \notin communities
        THEN [sess EXCEPT !.communities = @ \cup {comm_id}]
        ELSE sess

\* the active-keyset query of iteration sess.i and the generation it guards
KeysetMissing(comm_id) == active_keyset_first(comm_id) = 0

ik_keyset(sess, creator) ==
    LET comm_id == KeyedCommunities[sess.i]
    IN  [(IF KeysetMissing(comm_id)
          THEN [sess EXCEPT !.keysets = Append(@, Keyset(comm_id, creator))]
          ELSE sess) EXCEPT !.i = @ + 1]

\* db.commit(): the flush inserts every pending row in one transaction; a
\* primary-key or unique violation raises IntegrityError and nothing is kept
CommitFails(sess) ==
    \/ sess.communities \cap communities # {}
    \/ \E u \in sess.users : \E v \in users :
          u.user_id = v.user_id \/ u.phone = v.phone
    \/ \E d \in sess.devices : DeviceById(d.device_id) # {}

Commit(sess) ==
    /\ communities' = communities \cup sess.communities
    /\ keysets' = keysets \o sess.keysets
    /\ users' = users \cup sess.users
    /\ devices' = devices \cup sess.devices
    /\ memberships' = memberships \o sess.memberships

\* init_keys run from its first line to its commit with no other writer
RECURSIVE ik_loop(_, _)
ik_loop(sess, creator) ==
    IF sess.i > Len(KeyedCommunities) THEN sess
    ELSE ik_loop(ik_keyset(ik_community(sess), creator), creator)

\* startup(): one server process runs init_keys alone and starts serving
startup(p) ==
    /\ pc[p] = "down"
    /\ Commit(ik_loop(EmptySession, p))
    /\ pc' = [pc EXCEPT ![p] = "serving"]
    /\ UNCHANGED <<events, nonces_seen, now, tz, pending, response, held, edge, wire>>

(***************************************************************************)
(* The HTTP handlers.  Each runs in a session of its own (get_db) that is  *)
(* closed when the handler returns or raises: rows added and not committed *)
(* are dropped.  A handler is one step of the model.                       *)
(***************************************************************************)
RegisterDeviceRequests ==
    [device_id : DeviceIds, user_id : UserIds, phone : Phones,
     community_id : RequestCommunities]

\* a register_device whose membership is approved from the start
Mut_register_device_session(req) ==
    [EmptySession EXCEPT
        !.users = IF UserById(req.user_id) = {}
                  THEN {[user_id |-> req.user_id, phone |-> req.phone]}
                  ELSE {},
        !.devices = {[device_id |-> req.device_id, user_id |-> req.user_id]},
        !.memberships = <<[user_id |-> req.user_id,
                           community_id |-> req.community_id,
                           status |-> "approved"]>>]

\* the session of register_device when it reaches db.commit()
register_device_session(req) ==
    [EmptySession EXCEPT
        !.users = IF UserById(req.user_id) = {}
                  THEN {[user_id |-> req.user_id, phone |-> req.phone]}
                  ELSE {},
        !.devices = {[device_id |-> req.device_id, user_id |-> req.user_id]},
        !.memberships = <<[user_id |-> req.user_id,
                           community_id |-> req.community_id,
                           status |-> "pending"]>>]

\* a register_device that keeps the new user row when the device is taken
Mut_register_device(req) ==
    /\ Serving
    /\ IF DeviceById(req.device_id) # {}
       THEN /\ response' = Ok("register_device", [success |-> FALSE])
            /\ users' = users \cup register_device_session(req).users
            /\ UNCHANGED <<devices, communities, memberships, keysets,
                           events, nonces_seen>>
       ELSE IF CommitFails(register_device_session(req))
       THEN /\ response' = Err("register_device", 500, "Internal Server Error")
            /\ UNCHANGED db
       ELSE /\ Commit(register_device_session(req))
            /\ response' = Ok("register_device", [success |-> TRUE])
            /\ UNCHANGED <<events, nonces_seen>>
    /\ UNCHANGED <<now, tz, pc, pending, held, edge, wire>>

register_device(req) ==
    /\ Serving
    /\ IF DeviceById(req.device_id) # {}
       THEN /\ response' = Ok("register_device", [success |-> FALSE])
            /\ UNCHANGED db
       ELSE IF CommitFails(register_device_session(req))
       THEN /\ response' = Err("register_device", 500, "Internal Server Error")
            /\ UNCHANGED db
       ELSE /\ Commit(register_device_session(req))
            /\ response' = Ok("register_device", [success |-> TRUE])
            /\ UNCHANGED <<events, nonces_seen>>
    /\ UNCHANGED <<now, tz, pc, pending, held, edge, wire>>

\* an approve_device that takes the approval back when called again
Mut_approve_device(user_id, community_id) ==
    /\ Serving
    /\ LET m == membership_first(user_id, community_id)
       IN  IF m = 0
           THEN /\ response' = Err("approve_device", 404, "Membership not found")
                /\ UNCHANGED memberships
           ELSE /\ memberships' = [memberships EXCEPT ![m].status =
                                      IF @ = "approved" THEN "pending" ELSE "approved"]
                /\ response' = Ok("approve_device", [success |-> TRUE])
    /\ UNCHANGED <<users, devices, communities, keysets, events, nonces_seen,
                   now, tz, pc, pending, held, edge, wire>>

approve_device(user_id, community_id) ==
    /\ Serving
    /\ LET m == membership_first(user_id, community_id)
       IN  IF m = 0
           THEN /\ response' = Err("approve_device", 404, "Membership not found")
                /\ UNCHANGED memberships
           ELSE /\ memberships' = [memberships EXCEPT ![m].status = "approved"]
                /\ response' = Ok("approve_device", [success |-> TRUE])
    /\ UNCHANGED <<users, devices, communities, keysets, events, nonces_seen,
                   now, tz, pc, pending, held, edge, wire>>

get_my_communities_body(x_device_id) ==
    LET device == CHOOSE d \in devices : d.device_id = x_device_id
        Mine(m) == m.user_id = device.user_id /\ m.community_id \in communities
        rows == SelectSeq(memberships, Mine)
    IN  [i \in DOMAIN rows |->
            [community_id |-> rows[i].community_id, status |-> rows[i].status]]

get_my_communities(x_device_id) ==
    /\ Serving
    /\ response' = IF DeviceById(x_device_id) = {}
                   THEN Err("my_communities", 404, "Device not registered")
                   ELSE Ok("my_communities", get_my_communities_body(x_device_id))
    /\ UNCHANGED <<db, now, tz, pc, pending, held, edge, wire>>

\* a configuration response that serves the other half of the keypair
Mut_get_pi_config_body ==
    [communities |-> communities,
     keysets |-> [c \in {c \in communities : active_keyset_first(c) # 0} |->
                     keysets[active_keyset_first(c)].private_key]]

get_pi_config_body ==
    [communities |-> communities,
     keysets |-> [c \in {c \in communities : active_keyset_first(c) # 0} |->
                     keysets[active_keyset_first(c)].public_key]]

get_pi_config ==
    /\ Serving
    /\ response' = Ok("pi_config", get_pi_config_body)
    /\ UNCHANGED <<db, now, tz, pc, pending, held, edge, wire>>

(***************************************************************************)
(* sign_token.                                                             *)
(***************************************************************************)
SignTokenRequests ==
    [user_id : UserIds, device_id : DeviceIds,
     community_id : RequestCommunities, type : TokenTypes]

\* datetime.timestamp() of a naive datetime reads it as local time: the
\* naive UTC wall-clock value t is taken to be t o'clock in the server's zone
naive_timestamp(t) == t - tz

\* int((datetime.utcnow() + timedelta(seconds=30)).timestamp())
token_expires_at == naive_timestamp(now + TTL)

\* the payload dict of sign_token
token_payload(req) ==
    [user_id      |-> req.user_id,
     device_id    |-> req.device_id,
     community_id |-> req.community_id,
     type         |-> req.type,
     expires_at   |-> token_expires_at]

\* json.dumps(payload, sort_keys=True): the dict's items in key order
json_dumps(payload) ==
    <<<<"community_id", payload.community_id>>,
      <<"device_id", payload.device_id>>,
      <<"expires_at", payload.expires_at>>,
      <<"type", payload.type>>,
      <<"user_id", payload.user_id>>>>

\* json.loads: the dict of a dumped payload
json_loads(payload_str) ==
    [k \in {item[1] : item \in Range(payload_str)} |->
        (CHOOSE item \in Range(payload_str) : item[1] = k)[2]]

\* base64.b64encode(...).decode() and its inverse
b64encode(bytes) == [b64 |-> bytes]
b64decode(text) == text.b64

\* payload_str.encode() + b'.' + signature
token_bytes(payload_str, signature) == <<payload_str, ".", signature>>

\* what a token carries, read back from its transport form
payload_of(token) == json_loads(b64decode(token)[1])
signature_of(token) == b64decode(token)[3]

\* the device check: the device id is that of some registered device
device_check(req) == DeviceById(req.device_id) # {}

\* a membership check that refuses only a rejected membership
Mut_membership_approved(m) == memberships[m].status # "rejected"

\* the membership check: the first membership row of (user, community)
membership_approved(m) == memberships[m].status = "approved"

\* a key lookup that forgets the community filter
Mut_signing_keyset(req) ==
    FirstIndex({i \in DOMAIN keysets : keysets[i].active})

\* a key lookup that takes the newest active keyset of the community
Mut_signing_keyset_last(req) ==
    LET hits == {i \in DOMAIN keysets :
                    keysets[i].community_id = req.community_id /\ keysets[i].active}
    IN  IF hits = {} THEN 0 ELSE CHOOSE i \in hits : \A j \in hits : j <= i

\* the key the token is signed with
signing_keyset(req) == active_keyset_first(req.community_id)

sign_token_response(req) ==
    LET m == membership_first(req.user_id, req.community_id)
        k == signing_keyset(req)
        payload_str == json_dumps(token_payload(req))
        signature == Sign(keysets[k].private_key, payload_str)
    IN  IF ~ device_check(req)
        THEN Err("sign_token", 404, "Device not registered")
        ELSE IF m = 0
        THEN Err("sign_token", 403, "Not a member of this community")
        ELSE IF ~ membership_approved(m)
        THEN Err("sign_token", 403, "Access not approved")
        ELSE IF k = 0
        THEN Err("sign_token", 500, "No active keyset")
        ELSE Ok("sign_token",
                [token |-> b64encode(token_bytes(payload_str, signature)),
                 expires_at |-> token_expires_at])

\* a sign_token that records the token it issues in nonces_seen
Mut_sign_token_call(req) ==
    /\ Serving
    /\ response' = sign_token_response(req)
    /\ nonces_seen' = IF response'.status = 200
                      THEN nonces_seen \cup {[nonce |-> response'.body.token]}
                      ELSE nonces_seen
    /\ UNCHANGED <<users, devices, communities, memberships, keysets, events,
                   now, tz, pc, pending>>

\* the handler: it reads the store and the clock and writes nothing
sign_token_call(req) ==
    /\ Serving
    /\ response' = sign_token_response(req)
    /\ UNCHANGED <<db, now, tz, pc, pending>>

sign_token(req) ==
    /\ sign_token_call(req)
    /\ UNCHANGED <<held, edge, wire>>

(***************************************************************************)
(* The event log.                                                          *)
(***************************************************************************)
\* what a Pi reports: PiEventRequest
PiEventRequestsAt(timestamps) ==
    [user_id : UserIds, device_id : {"android_device_001"},
     community_id : {"apt101"}, type : {"entry"},
     timestamp : timestamps, verified : BOOLEAN]

\* reports stamped with the time they are sent at
PiEventRequests == PiEventRequestsAt({Epoch0})

\* a log_access that writes over the newest row once the table has one
Mut_log_access(event) ==
    /\ Serving
    /\ LET row == [user_id |-> event.user_id, device_id |-> event.device_id,
                   community_id |-> event.community_id, type |-> event.type,
                   pi_id |-> "None", timestamp |-> event.timestamp,
                   verified |-> event.verified]
       IN  events' = IF events = <<>> THEN <<row>>
                     ELSE [events EXCEPT ![Len(events)] = row]
    /\ response' = Ok("log_access", [success |-> TRUE, event_id |-> Len(events')])
    /\ UNCHANGED <<users, devices, communities, memberships, keysets,
                   nonces_seen, now, tz, pc, pending, held, edge, wire>>

log_access(event) ==
    /\ Serving
    /\ events' = Append(events,
                    [user_id |-> event.user_id, device_id |-> event.device_id,
                     community_id |-> event.community_id, type |-> event.type,
                     pi_id |-> "None", timestamp |-> event.timestamp,
                     verified |-> event.verified])
    /\ response' = Ok("log_access", [success |-> TRUE, event_id |-> Len(events')])
    /\ UNCHANGED <<users, devices, communities, memberships, keysets,
                   nonces_seen, now, tz, pc, pending, held, edge, wire>>

log_nfc_detection(pi_id, uid) ==
    /\ Serving
    /\ events' = Append(events,
                    [user_id |-> "unknown", device_id |-> uid,
                     community_id |-> "unknown", type |-> "nfc_detected",
                     pi_id |-> pi_id, timestamp |-> now, verified |-> FALSE])
    /\ response' = Ok("log_nfc_detection",
                      [success |-> TRUE, event_id |-> Len(events')])
    /\ UNCHANGED <<users, devices, communities, memberships, keysets,
                   nonces_seen, now, tz, pc, pending, held, edge, wire>>

\* order_by(Event.timestamp.desc()): event ids by falling timestamp, rows of
\* one timestamp in id order
RECURSIVE by_timestamp_desc(_)
by_timestamp_desc(ids) ==
    IF ids = {} THEN <<>>
    ELSE LET top == CHOOSE i \in ids : \A j \in ids :
                       \/ events[i].timestamp > events[j].timestamp
                       \/ events[i].timestamp = events[j].timestamp /\ i <= j
         IN  <<top>> \o by_timestamp_desc(ids \ {top})

EventResponse(event_id) ==
    [event_id |-> event_id, community_id |-> events[event_id].community_id,
     type |-> events[event_id].type, timestamp |-> events[event_id].timestamp,
     pi_id |-> events[event_id].pi_id]

get_my_logs_body(x_device_id, limit) ==
    LET device == CHOOSE d \in devices : d.device_id = x_device_id
        ids == by_timestamp_desc(
                   {i \in DOMAIN events : events[i].user_id = device.user_id})
        n == IF Len(ids) < limit THEN Len(ids) ELSE limit
    IN  [i \in 1..n |-> EventResponse(ids[i])]

get_my_logs(x_device_id, limit) ==
    /\ Serving
    /\ response' = IF DeviceById(x_device_id) = {}
                   THEN Err("my_logs", 404, "Device not registered")
                   ELSE Ok("my_logs", get_my_logs_body(x_device_id, limit))
    /\ UNCHANGED <<db, now, tz, pc, pending, held, edge, wire>>

(***************************************************************************)
(* The state after the module is imported: create_all has made the tables, *)
(* all empty; no server process has run its startup hook yet.              *)
(***************************************************************************)
\* nothing has been put in transport form yet
NoWire ==
    [stage |-> "empty", payload |-> <<>>, signature |-> <<>>, token |-> <<>>,
     parsed |-> [ok |-> FALSE, payload |-> <<>>, signature |-> <<>>]]

EmptyDb ==
    /\ users = {}
    /\ devices = {}
    /\ communities = {}
    /\ memberships = <<>>
    /\ keysets = <<>>
    /\ events = <<>>
    /\ nonces_seen = {}

InitIn(zones) ==
    /\ EmptyDb
    /\ now = Epoch0
    /\ tz \in zones
    /\ pc = [p \in Servers \cup {"seed"} |-> "down"]
    /\ pending = [p \in Servers \cup {"seed"} |-> EmptySession]
    /\ response = NoResponse
    /\ held = <<>>
    /\ edge = [ledger |-> {}, verdicts |-> <<>>]
    /\ wire = NoWire

\* a server whose zone is UTC
Init == InitIn({0})

\* a server in any of the zones
InitToken == InitIn(TzOffsets)

(***************************************************************************)
(* Spec: one server process, its startup hook run alone, then its handlers *)
(* called in any order with any requests.                                  *)
(***************************************************************************)
Next ==
    \/ startup("server1")
    \/ \E req \in RegisterDeviceRequests : register_device(req)
    \/ \E u \in UserIds, c \in RequestCommunities : approve_device(u, c)
    \/ \E req \in SignTokenRequests : sign_token(req)
    \/ \E d \in DeviceIds : get_my_communities(d)
    \/ get_pi_config
    \/ Len(events) < MaxEvents /\ \E event \in PiEventRequests : log_access(event)
    \/ Len(events) < MaxEvents /\ log_nfc_detection("pi1", "card1")
    \/ \E d \in DeviceIds, limit \in {1, 50} : get_my_logs(d, limit)

Spec == Init /\ [][Next]_vars

(***************************************************************************)
(* SpecAccess: Spec without the event log: the handlers that read and      *)
(* write users, devices, memberships and keysets.                          *)
(***************************************************************************)
NextAccess ==
    \/ startup("server1")
    \/ \E req \in RegisterDeviceRequests : register_device(req)
    \/ \E u \in UserIds, c \in RequestCommunities : approve_device(u, c)
    \/ \E req \in SignTokenRequests : sign_token(req)
    \/ \E d \in DeviceIds : get_my_communities(d)
    \/ get_pi_config

SpecAccess == Init /\ [][NextAccess]_vars

(***************************************************************************)
(* Key creators run as concurrent processes, one database statement at a   *)
(* time.  A SELECT outside a transaction sees what has been committed when *)
(* it runs; the INSERTs of a commit are one transaction.                   *)
(***************************************************************************)
ik_query_community(p) ==
    /\ pc[p] \in {"down", "ik_community"}
    /\ pending' = [pending EXCEPT ![p] = ik_community(pending[p])]
    /\ pc' = [pc EXCEPT ![p] = "ik_keyset"]
    /\ UNCHANGED <<db, now, tz, response, held, edge, wire>>

ik_query_keyset(p) ==
    /\ pc[p] = "ik_keyset"
    /\ pending' = [pending EXCEPT ![p] = ik_keyset(pending[p], p)]
    /\ pc' = [pc EXCEPT ![p] = IF pending'[p].i > Len(KeyedCommunities)
                               THEN "ik_commit" ELSE "ik_community"]
    /\ UNCHANGED <<db, now, tz, response, held, edge, wire>>

\* db.commit() of init_keys; an IntegrityError ends startup() and the process
ik_commit(p) ==
    /\ pc[p] = "ik_commit"
    /\ IF CommitFails(pending[p])
       THEN /\ pc' = [pc EXCEPT ![p] = "failed"]
            /\ UNCHANGED <<users, devices, communities, memberships, keysets>>
       ELSE /\ Commit(pending[p])
            /\ pc' = [pc EXCEPT ![p] = "serving"]
    /\ pending' = [pending EXCEPT ![p] = EmptySession]
    /\ UNCHANGED <<events, nonces_seen, now, tz, response, held, edge, wire>>

(***************************************************************************)
(* seed_database: five loops, each followed by a commit.                   *)
(***************************************************************************)
DemoUsers ==
    <<[user_id |-> "user001", phone |-> "+1234567890"],
      [user_id |-> "user002", phone |-> "+1234567891"],
      [user_id |-> "user003", phone |-> "+1234567892"]>>

DemoDevices ==
    <<[device_id |-> "android_device_001", user_id |-> "user001"],
      [device_id |-> "android_device_002", user_id |-> "user002"],
      [device_id |-> "android_device_003", user_id |-> "user003"]>>

DemoMemberships ==
    <<[user_id |-> "user001", community_id |-> "apt101", status |-> "approved"],
      [user_id |-> "user002", community_id |-> "public_parking", status |-> "approved"],
      [user_id |-> "user003", community_id |-> "gym_access", status |-> "pending"]>>

SeedLoops == <<"communities", "keysets", "users", "devices", "memberships">>

\* iteration sess.i of loop sess.stage: the existence query and the db.add
sd_row(sess, creator) ==
    LET i == sess.i
        loop == SeedLoops[sess.stage]
        added ==
            CASE loop = "communities" -> ik_community(sess)
              [] loop = "keysets" ->
                    IF KeysetMissing(KeyedCommunities[i])
                    THEN [sess EXCEPT !.keysets =
                             Append(@, Keyset(KeyedCommunities[i], creator))]
                    ELSE sess
              [] loop = "users" ->
                    IF UserById(DemoUsers[i].user_id) = {}
                    THEN [sess EXCEPT !.users = @ \cup {DemoUsers[i]}]
                    ELSE sess
              [] loop = "devices" ->
                    IF DeviceById(DemoDevices[i].device_id) = {}
                    THEN [sess EXCEPT !.devices = @ \cup {DemoDevices[i]}]
                    ELSE sess
              [] loop = "memberships" ->
                    IF membership_first(DemoMemberships[i].user_id,
                                        DemoMemberships[i].community_id) = 0
                    THEN [sess EXCEPT !.memberships = Append(@, DemoMemberships[i])]
                    ELSE sess
    IN  [added EXCEPT !.i = i + 1]

sd_query(p) ==
    /\ pc[p] \in {"down", "sd_query"}
    /\ pending' = [pending EXCEPT ![p] = sd_row(pending[p], p)]
    /\ pc' = [pc EXCEPT ![p] = IF pending'[p].i > 3 THEN "sd_commit" ELSE "sd_query"]
    /\ UNCHANGED <<db, now, tz, response, held, edge, wire>>

\* db.commit() after a loop; on an exception: rollback, re-raise, exit
sd_commit(p) ==
    /\ pc[p] = "sd_commit"
    /\ IF CommitFails(pending[p])
       THEN /\ pc' = [pc EXCEPT ![p] = "failed"]
            /\ pending' = [pending EXCEPT ![p] = EmptySession]
            /\ UNCHANGED <<users, devices, communities, memberships, keysets>>
       ELSE /\ Commit(pending[p])
            /\ IF pending[p].stage = Len(SeedLoops)
               THEN /\ pc' = [pc EXCEPT ![p] = "done"]
                    /\ pending' = [pending EXCEPT ![p] = EmptySession]
               ELSE /\ pc' = [pc EXCEPT ![p] = "sd_query"]
                    /\ pending' = [pending EXCEPT ![p] =
                          [EmptySession EXCEPT !.stage = pending[p].stage + 1]]
    /\ UNCHANGED <<events, nonces_seen, now, tz, response, held, edge, wire>>

(***************************************************************************)
(* SpecKeys: two server processes start and the seeding script runs, all   *)
(* at once, against one empty database.                                    *)
(***************************************************************************)
NextKeys ==
    \/ \E p \in Servers : ik_query_community(p)
    \/ \E p \in Servers : ik_query_keyset(p)
    \/ \E p \in Servers : ik_commit(p)
    \/ sd_query("seed")
    \/ sd_commit("seed")

SpecKeys == Init /\ [][NextKeys]_vars

(***************************************************************************)
(* SpecKeysServe: SpecKeys, and the servers that have started answer       *)
(* sign_token and get_pi_config while the other key creators still run.    *)
(***************************************************************************)
NextKeysServe ==
    \/ NextKeys
    \/ \E req \in SignTokenRequests : sign_token(req)
    \/ get_pi_config

SpecKeysServe == Init /\ [][NextKeysServe]_vars

(***************************************************************************)
(* The mobile device and the clock.                                        *)
(***************************************************************************)
\* a mobile device calls sign_token and keeps the token it is given
mobile_request_token(req) ==
    /\ Len(held) < MaxHeld
    /\ sign_token_call(req)
    /\ held' = IF response'.status = 200
               THEN Append(held, [token |-> response'.body.token,
                                  received_at |-> now])
               ELSE held
    /\ UNCHANGED <<edge, wire>>

\* the instants the clock is looked at: the start, a second later, a token
\* lifetime later, a second after that, and the end of the run
Instants == {Epoch0 + d : d \in {0, 1, TTL, TTL + 1, MaxElapsed}}

\* time passes, by any amount, to a later instant
Tick ==
    /\ \E t \in Instants :
          /\ t > now
          /\ now' = t
    /\ UNCHANGED <<db, tz, pc, pending, response, held, edge, wire>>

(***************************************************************************)
(* The door controller's verifier.  Its code is not in this repository;    *)
(* it is the TokenVerifier and ReplayLedger of the specification, reading  *)
(* the tokens in the framing sign_token gives them.                        *)
(***************************************************************************)
\* the payload fields a token must carry
RequiredFields ==
    {"ver", "user_id", "device_id", "community_id", "type", "iat", "exp", "nonce"}

\* the allowance for a token that seems to come from the future, in seconds
ClockSkew == 2

\* verify(transportToken, tenantPublicKey, now): the gates in order
verify(token, tenant, tenantPublicKey, t, ledger) ==
    LET payload_str == b64decode(token)[1]
        payload == json_loads(payload_str)
    IN  IF ~ (RequiredFields \subseteq DOMAIN payload)
        THEN "Malformed"
        ELSE IF ~ Verify(tenantPublicKey, payload_str, signature_of(token))
        THEN "BadSignature"
        ELSE IF ~ (payload.iat - ClockSkew <= t /\ t <= payload.exp)
        THEN "Expired"
        ELSE IF <<tenant, payload.nonce>> \in ledger
        THEN "Replayed"
        ELSE IF payload.type \notin TokenTypes
        THEN "InvalidAction"
        ELSE "Granted"

\* checkAndInsert: the nonce is recorded when the replay gate is reached
ledger_after(token, tenant, result, ledger) ==
    IF result \in {"InvalidAction", "Granted"}
    THEN ledger \cup {<<tenant, payload_of(token).nonce>>}
    ELSE ledger

\* a held token is presented at the reader of the community it names; the
\* reader checks it under the key get_pi_config serves for that community
present(i) ==
    /\ i \in DOMAIN held
    /\ Len(edge.verdicts) < MaxPresentations
    /\ LET token == held[i].token
           tenant == payload_of(token).community_id
           result == verify(token, tenant, get_pi_config_body.keysets[tenant],
                            now, edge.ledger)
       IN  edge' = [ledger |-> ledger_after(token, tenant, result, edge.ledger),
                    verdicts |-> Append(edge.verdicts,
                                    [token |-> token, at |-> now, result |-> result])]
    /\ UNCHANGED <<db, now, tz, pc, pending, response, held, wire>>

(***************************************************************************)
(* SpecToken: a server in any time zone starts, one device is registered   *)
(* and approved, tokens are requested and presented while the clock runs.  *)
(***************************************************************************)
TokenUser ==
    [device_id |-> "android_device_001", user_id |-> "user001",
     phone |-> "+1234567890", community_id |-> "apt101"]

TokenRequests ==
    [user_id : {TokenUser.user_id}, device_id : {TokenUser.device_id},
     community_id : {TokenUser.community_id}, type : TokenTypes]

NextToken ==
    \/ startup("server1")
    \/ register_device(TokenUser)
    \/ approve_device(TokenUser.user_id, TokenUser.community_id)
    \/ \E req \in TokenRequests : mobile_request_token(req)
    \/ Tick
    \/ \E i \in 1..MaxHeld : present(i)

SpecToken == InitToken /\ [][NextToken]_vars

(***************************************************************************)
(* The transport form of a token, byte by byte.  Bytes are 0..255, text is *)
(* a sequence of one-character strings.  token_bytes and b64encode above   *)
(* keep the parts of a token apart; here they are run together as the code *)
(* runs them together.                                                     *)
(***************************************************************************)
\* the byte b'.'
Dot == 46

\* the alphabet of base64.b64encode
B64Alphabet ==
    <<"A", "B", "C", "D", "E", "F", "G", "H", "I", "J", "K", "L", "M", "N", "O", "P",
      "Q", "R", "S", "T", "U", "V", "W", "X", "Y", "Z", "a", "b", "c", "d", "e", "f",
      "g", "h", "i", "j", "k", "l", "m", "n", "o", "p", "q", "r", "s", "t", "u", "v",
      "w", "x", "y", "z", "0", "1", "2", "3", "4", "5", "6", "7", "8", "9", "+", "/">>

\* the URL-safe alphabet: "-" and "_" for "+" and "/"
B64UrlAlphabet ==
    [i \in 1..64 |-> IF i = 63 THEN "-" ELSE IF i = 64 THEN "_" ELSE B64Alphabet[i]]

\* base64.b64encode(bytes).decode(): three bytes to four characters, the
\* last group filled with "="
RECURSIVE base64_b64encode(_)
base64_b64encode(bytes) ==
    LET A == B64Alphabet
    IN  IF bytes = <<>> THEN <<>>
        ELSE IF Len(bytes) = 1
        THEN LET n == bytes[1] * 16
             IN  <<A[(n \div 64) + 1], A[(n % 64) + 1], "=", "=">>
        ELSE IF Len(bytes) = 2
        THEN LET n == (bytes[1] * 256 + bytes[2]) * 4
             IN  <<A[(n \div 4096) + 1], A[((n \div 64) % 64) + 1],
                   A[(n % 64) + 1], "=">>
        ELSE LET n == bytes[1] * 65536 + bytes[2] * 256 + bytes[3]
             IN  <<A[(n \div 262144) + 1], A[((n \div 4096) % 64) + 1],
                   A[((n \div 64) % 64) + 1], A[(n % 64) + 1]>>
                 \o base64_b64encode(SubSeq(bytes, 4, Len(bytes)))

\* the bytes of unpadded base64 text over an alphabet; Undecodable marks
\* text that is not base64 over it
Undecodable == <<256>>

SextetOf(char, alphabet) ==
    CHOOSE i \in 0..63 : alphabet[i + 1] = char

RECURSIVE base64_decode(_, _)
base64_decode(text, alphabet) ==
    LET v(i) == SextetOf(text[i], alphabet)
        rest == base64_decode(SubSeq(text, 5, Len(text)), alphabet)
    IN  IF text = <<>> THEN <<>>
        ELSE IF \E i \in DOMAIN text : text[i] \notin Range(alphabet)
        THEN Undecodable
        ELSE IF Len(text) = 1 THEN Undecodable
        ELSE IF Len(text) = 2
        THEN <<(v(1) * 64 + v(2)) \div 16>>
        ELSE IF Len(text) = 3
        THEN LET n == (v(1) * 4096 + v(2) * 64 + v(3)) \div 4
             IN  <<n \div 256, n % 256>>
        ELSE LET n == v(1) * 262144 + v(2) * 4096 + v(3) * 64 + v(4)
             IN  IF rest = Undecodable THEN Undecodable
                 ELSE <<n \div 65536, (n \div 256) % 256, n % 256>> \o rest

\* base64.b64decode(text): the padding dropped, the rest decoded
base64_b64decode(text) ==
    base64_decode(SelectSeq(text, LAMBDA c : c # "="), B64Alphabet)

\* json.dumps of a payload, encoded: the braces, the key and a string value,
\* as in {"user_id": "a.b"}.  The other four items are rendered the same way
\* and are left out here.
payload_bytes(user_id) ==
    <<123, 34, 117, 115, 101, 114, 95, 105, 100, 34, 58, 32, 34>>
        \o user_id \o <<34, 125>>

\* base64.b64encode(payload_str.encode() + b'.' + signature).decode()
transport_token(payload, signature) ==
    base64_b64encode(payload \o <<Dot>> \o signature)

\* reading a token back.  The repository has no reader; this is fromTransport
\* of the specification: two halves around one ".", each unpadded base64url.
Dots(seq, dot) == {i \in DOMAIN seq : seq[i] = dot}

from_transport(text) ==
    LET dots == Dots(text, ".")
        cut == CHOOSE i \in dots : TRUE
        payload == base64_decode(SubSeq(text, 1, cut - 1), B64UrlAlphabet)
        signature == base64_decode(SubSeq(text, cut + 1, Len(text)), B64UrlAlphabet)
    IN  IF Cardinality(dots) # 1
        THEN NoWire.parsed
        ELSE IF payload = Undecodable \/ signature = Undecodable
        THEN NoWire.parsed
        ELSE [ok |-> TRUE, payload |-> payload, signature |-> signature]

\* a reader that undoes b64encode and cuts the bytes at a b'.', the first
\* one or the last one
split_bytes(bytes, cut) ==
    [ok |-> TRUE, payload |-> SubSeq(bytes, 1, cut - 1),
     signature |-> SubSeq(bytes, cut + 1, Len(bytes))]

split_first(text) ==
    LET bytes == base64_b64decode(text)
    IN  split_bytes(bytes, Min(Dots(bytes, Dot)))

split_last(text) ==
    LET bytes == base64_b64decode(text)
        dots == Dots(bytes, Dot)
    IN  split_bytes(bytes, CHOOSE i \in dots : \A j \in dots : j <= i)

\* the longest user_id and the length of a signature, in bytes
MaxIdLen == 3
SigLen == 2

\* user ids of the letter "a" and the separator character
IdBytes == {97, Dot}
TransportUserIds ==
    UNION {[1..n -> IdBytes] : n \in 1..MaxIdLen}

\* signatures: any bytes, among them 0x2E and bytes whose base64 has "+" or "/"
SignatureBytes == {Dot, 0, 251, 255}
TransportSignatures == [1..SigLen -> SignatureBytes]

to_transport(payload, signature) ==
    /\ wire.stage = "empty"
    /\ wire' = [NoWire EXCEPT !.stage = "sent", !.payload = payload,
                              !.signature = signature,
                              !.token = transport_token(payload, signature)]
    /\ UNCHANGED <<db, now, tz, pc, pending, response, held, edge>>

read_transport ==
    /\ wire.stage = "sent"
    /\ wire' = [wire EXCEPT !.stage = "received",
                            !.parsed = from_transport(wire.token)]
    /\ UNCHANGED <<db, now, tz, pc, pending, response, held, edge>>

(***************************************************************************)
(* SpecTransport: one payload and one signature are put in transport form  *)
(* and the token is read back.                                             *)
(***************************************************************************)
NextTransport ==
    \/ \E u \in TransportUserIds, s \in TransportSignatures :
          to_transport(payload_bytes(u), s)
    \/ read_transport

SpecTransport == Init /\ [][NextTransport]_vars

(***************************************************************************)
(* SpecEvents: one server, one user and device, every handler, and Pis     *)
(* that report events stamped now or a second ago.                         *)
(***************************************************************************)
LoggedRequests ==
    {event \in PiEventRequestsAt({Epoch0 - 1, Epoch0}) :
        event.user_id = TokenUser.user_id}

NextEvents ==
    \/ startup("server1")
    \/ register_device(TokenUser)
    \/ approve_device(TokenUser.user_id, TokenUser.community_id)
    \/ \E req \in TokenRequests : sign_token(req)
    \/ get_my_communities(TokenUser.device_id)
    \/ get_pi_config
    \/ Len(events) < MaxLogged /\ \E event \in LoggedRequests : log_access(event)
    \/ Len(events) < MaxLogged /\ log_nfc_detection("pi1", "card1")
    \/ \E limit \in {1, 50} : get_my_logs(TokenUser.device_id, limit)

SpecEvents == Init /\ [][NextEvents]_vars

(***************************************************************************)
(* Shorthands of the claims.                                               *)
(***************************************************************************)
Issued == response.op = "sign_token" /\ response.status = 200
HasToken(r) == "token" \in DOMAIN r.body

ApprovedMembership(user_id, community_id) ==
    \E i \in DOMAIN memberships :
        /\ memberships[i].user_id = user_id
        /\ memberships[i].community_id = community_id
        /\ memberships[i].status = "approved"

ActiveKeyset(community_id) ==
    \E i \in DOMAIN keysets :
        keysets[i].community_id = community_id /\ keysets[i].active

(***************************************************************************)
(* C1, as stated: a token is returned only when an approved membership of  *)
(* (user_id, community_id) exists, and when none is approved the call      *)
(* fails with 403 and returns no token.                                    *)
(***************************************************************************)
C1_Original ==
    Serving => \A req \in SignTokenRequests :
        LET r == sign_token_response(req)
        IN  /\ r.status = 200 => ApprovedMembership(req.user_id, req.community_id)
            /\ ~ ApprovedMembership(req.user_id, req.community_id)
                  => r.status = 403 /\ ~ HasToken(r)

(***************************************************************************)
(* C1, amended: a token is returned only when an approved membership of    *)
(* (user_id, community_id) exists; when none is approved the call returns  *)
(* no token and fails with 404 if the device id is not registered and with *)
(* 403 otherwise.                                                          *)
(***************************************************************************)
C1_TokenNeedsApprovedMembership ==
    Serving => \A req \in SignTokenRequests :
        LET r == sign_token_response(req)
        IN  /\ r.status = 200 => ApprovedMembership(req.user_id, req.community_id)
            /\ ~ ApprovedMembership(req.user_id, req.community_id)
                  => /\ ~ HasToken(r)
                     /\ r.status = IF DeviceById(req.device_id) = {}
                                   THEN 404 ELSE 403

\* C1's case: a token has been issued while another request of the same
\* state is refused for a membership that is still pending
C1_Witness ==
    /\ Issued
    /\ \E req \in SignTokenRequests :
          /\ membership_first(req.user_id, req.community_id) # 0
          /\ ~ ApprovedMembership(req.user_id, req.community_id)
          /\ sign_token_response(req).status = 403

(***************************************************************************)
(* C2, as stated: the device a returned token names is registered to the   *)
(* user the token names.                                                   *)
(***************************************************************************)
C2_TokenDeviceBelongsToUser ==
    Issued =>
        \E d \in devices :
            /\ d.device_id = payload_of(response.body.token).device_id
            /\ d.user_id = payload_of(response.body.token).user_id

(***************************************************************************)
(* C6, as stated: with no active keyset for the requested community the    *)
(* call fails with 500 and returns no token; with one, it never fails with *)
(* 500.                                                                    *)
(***************************************************************************)
C6_Original ==
    Serving => \A req \in SignTokenRequests :
        LET r == sign_token_response(req)
        IN  IF ActiveKeyset(req.community_id)
            THEN r.status # 500
            ELSE r.status = 500 /\ ~ HasToken(r)

(***************************************************************************)
(* C6, amended: with no active keyset for the requested community the call *)
(* returns no token, and it fails with 500 exactly when the device id is   *)
(* registered and the first membership of (user, community) is approved    *)
(* (otherwise the earlier check's 404 or 403 is the error); with an active *)
(* keyset it never fails with 500.                                         *)
(***************************************************************************)
C6_NoKeysetNoToken ==
    Serving => \A req \in SignTokenRequests :
        LET r == sign_token_response(req)
            m == membership_first(req.user_id, req.community_id)
            passed == /\ DeviceById(req.device_id) # {}
                      /\ m # 0
                      /\ memberships[m].status = "approved"
        IN  IF ActiveKeyset(req.community_id)
            THEN r.status # 500
            ELSE /\ ~ HasToken(r)
                 /\ r.status = 500 <=> passed

\* C6's case: sign_token has answered 500 for a community without a keyset
C6_Witness ==
    /\ response.op = "sign_token"
    /\ response.status = 500
    /\ \E c \in RequestCommunities : ~ ActiveKeyset(c)

(***************************************************************************)
(* C7: no response of get_pi_config, sign_token, my_communities, my_logs   *)
(* or register_device holds a private key; the only key material in a      *)
(* response is, in get_pi_config's, the public key of an active keyset of  *)
(* the community it is listed under.                                       *)
(***************************************************************************)
PrivateKeys == {keysets[i].private_key : i \in DOMAIN keysets}

C7_NoPrivateKeyLeaves ==
    /\ response.op = "pi_config" =>
          \A c \in DOMAIN response.body.keysets :
              /\ response.body.keysets[c] \notin PrivateKeys
              /\ \E i \in DOMAIN keysets :
                    /\ keysets[i].community_id = c
                    /\ keysets[i].active
                    /\ keysets[i].public_key = response.body.keysets[c]
    /\ Issued =>
          /\ DOMAIN response.body = {"token", "expires_at"}
          /\ Len(b64decode(response.body.token)) = 3
          /\ signature_of(response.body.token) \notin PrivateKeys
          /\ signature_of(response.body.token).kind = "signature"
          /\ DOMAIN payload_of(response.body.token) \cap {"private_key", "public_key"} = {}
    /\ response.op = "sign_token" /\ response.status # 200 =>
          DOMAIN response.body = {"detail"}
    /\ response.op = "my_communities" /\ response.status = 200 =>
          \A i \in DOMAIN response.body :
              DOMAIN response.body[i] = {"community_id", "status"}
    /\ response.op = "my_logs" /\ response.status = 200 =>
          \A i \in DOMAIN response.body :
              DOMAIN response.body[i] =
                  {"event_id", "community_id", "type", "timestamp", "pi_id"}
    /\ response.op = "register_device" =>
          DOMAIN response.body \in {{"success"}, {"detail"}}

\* C7's case: get_pi_config has served a key
C7_Witness ==
    /\ response.op = "pi_config"
    /\ DOMAIN response.body.keysets # {}

(***************************************************************************)
(* C3, as stated: each community has at most one keyset row with           *)
(* active = true, whatever the interleaving of the key creators.           *)
(***************************************************************************)
C3_AtMostOneActiveKeyset ==
    \A i, j \in DOMAIN keysets :
        /\ keysets[i].community_id = keysets[j].community_id
        /\ keysets[i].active
        /\ keysets[j].active
        => i = j

(***************************************************************************)
(* C4, as stated: no two successful sign_token calls return the same       *)
(* token, also for equal requests within one clock second.                 *)
(***************************************************************************)
C4_TokensDistinct ==
    \A i, j \in DOMAIN held : i # j => held[i].token # held[j].token

(***************************************************************************)
(* C5, as stated: the signed payload of every issued token carries an      *)
(* issued-at equal to the current time and an expires-at equal to          *)
(* issued-at + 30, and the expiry returned beside the token is the         *)
(* payload's.                                                              *)
(***************************************************************************)
C5_Original ==
    Serving => \A req \in TokenRequests :
        LET r == sign_token_response(req)
            payload == payload_of(r.body.token)
        IN  r.status = 200 =>
                /\ "iat" \in DOMAIN payload
                /\ payload.iat = now
                /\ payload.expires_at = payload.iat + TTL
                /\ r.body.expires_at = payload.expires_at

\* C5 without the issued-at field: the expires-at of every issued token is
\* 30 seconds after the time of the call.  It fails too, off UTC.
C5_ExpiresThirtySecondsAhead ==
    Serving => \A req \in TokenRequests :
        LET r == sign_token_response(req)
        IN  r.status = 200 =>
                /\ payload_of(r.body.token).expires_at = now + TTL
                /\ r.body.expires_at = now + TTL

(***************************************************************************)
(* C8, as stated: a token presented within its lifetime is Granted the     *)
(* first time and Replayed every later time.                               *)
(***************************************************************************)
\* the times a held token is valid at: from its issue, for TTL seconds
InLifetime(token, t) ==
    \E i \in DOMAIN held :
        /\ held[i].token = token
        /\ held[i].received_at <= t
        /\ t <= held[i].received_at + TTL

C8_GrantedThenReplayed ==
    \A k \in DOMAIN edge.verdicts :
        LET v == edge.verdicts[k]
            earlier == {j \in 1..(k - 1) : edge.verdicts[j].token = v.token}
        IN  InLifetime(v.token, v.at) =>
                v.result = IF earlier = {} THEN "Granted" ELSE "Replayed"

(***************************************************************************)
(* C10, as stated: a token first presented at its issued-at is Granted,    *)
(* one presented a second after its expires-at is Expired, and none is     *)
(* Granted outside its lifetime (but for the clock-skew allowance).        *)
(***************************************************************************)
C10_FreshThenExpired ==
    \A k \in DOMAIN edge.verdicts :
        LET v == edge.verdicts[k]
            first == \A j \in 1..(k - 1) : edge.verdicts[j].token # v.token
            issues == {held[i].received_at :
                          i \in {i \in DOMAIN held : held[i].token = v.token}}
        IN  /\ first /\ v.at \in issues => v.result = "Granted"
            /\ (\A t \in issues : v.at = t + TTL + 1) => v.result = "Expired"
            /\ v.result = "Granted" =>
                  \E t \in issues : t - ClockSkew <= v.at /\ v.at <= t + TTL

(***************************************************************************)
(* C11, as stated: a token has the form base64url(payload) "."             *)
(* base64url(signature), both halves unpadded, and reading it back at the  *)
(* separator gives the payload and the signature it was made of.           *)
(***************************************************************************)
C11_RoundTrip ==
    /\ wire.stage # "empty" =>
          /\ Cardinality(Dots(wire.token, ".")) = 1
          /\ \A i \in DOMAIN wire.token : wire.token[i] \notin {"=", "+", "/"}
    /\ wire.stage = "received" =>
          wire.parsed = [ok |-> TRUE, payload |-> wire.payload,
                         signature |-> wire.signature]

\* C11 for a reader made for the code's framing: one that undoes b64encode
\* and cuts the bytes at the first b'.', or one that cuts at the last.  The
\* first loses a payload with "." in a string, the second a signature with
\* the byte 0x2E.
C11_SplitFirstRecovers ==
    wire.stage # "empty" =>
        split_first(wire.token) = [ok |-> TRUE, payload |-> wire.payload,
                                   signature |-> wire.signature]

C11_SplitLastRecovers ==
    wire.stage # "empty" =>
        split_last(wire.token) = [ok |-> TRUE, payload |-> wire.payload,
                                  signature |-> wire.signature]

\* base64.b64encode itself loses nothing
C11_Base64Inverts ==
    wire.stage # "empty" =>
        base64_b64decode(wire.token) = wire.payload \o <<Dot>> \o wire.signature

(***************************************************************************)
(* C12: every token sign_token returns for a community is signed with the  *)
(* private key of a keyset that is active for that community in the state  *)
(* of the call, and the signature verifies under the public key            *)
(* get_pi_config serves for the community in that state - also when the    *)
(* community has more than one active keyset.                              *)
(***************************************************************************)
C12_SignedWithServedActiveKey ==
    Serving => \A req \in SignTokenRequests :
        LET r == sign_token_response(req)
            payload_str == b64decode(r.body.token)[1]
            signature == signature_of(r.body.token)
            served == get_pi_config_body.keysets
        IN  r.status = 200 =>
                /\ \E i \in DOMAIN keysets :
                      /\ keysets[i].community_id = req.community_id
                      /\ keysets[i].active
                      /\ signature = Sign(keysets[i].private_key, payload_str)
                /\ req.community_id \in DOMAIN served
                /\ Verify(served[req.community_id], payload_str, signature)

\* a token has been issued for a community that has two active keysets
C12_Witness ==
    /\ Issued
    /\ Cardinality({i \in DOMAIN keysets :
                       /\ keysets[i].active
                       /\ keysets[i].community_id
                             = payload_of(response.body.token).community_id}) > 1

(***************************************************************************)
(* C13: the events table is append-only.  Every step leaves the rows that  *)
(* exist as they are; a step that changes the table is a log_access or a   *)
(* log_nfc_detection and adds exactly one row, under the next event_id;    *)
(* and every log_access and log_nfc_detection adds a row.                  *)
(***************************************************************************)
LogOps == {"log_access", "log_nfc_detection"}

C13_EventsAppendOnly ==
    [][ /\ Len(events') >= Len(events)
        /\ SubSeq(events', 1, Len(events)) = events
        /\ events' # events =>
              /\ Len(events') = Len(events) + 1
              /\ response'.op \in LogOps
              /\ response'.body.event_id = Len(events')
        /\ (response'.op \in LogOps /\ response' # response) =>
              Len(events') = Len(events) + 1 ]_vars

\* a row has been appended to a table that already had one
C13_Witness ==
    /\ Len(events) = 2
    /\ response.op \in LogOps
    /\ response.body.event_id = 2

(***************************************************************************)
(* C14.  A membership that register_device creates starts pending; while   *)
(* the membership sign_token consults for (user, community) is pending,    *)
(* every sign_token call for the pair fails; and it stops being pending    *)
(* only in a successful approve_device.                                    *)
(***************************************************************************)
PendingFirst(user_id, community_id) ==
    LET m == membership_first(user_id, community_id)
    IN  m # 0 /\ memberships[m].status = "pending"

\* the steps of C14: new rows are pending, and only approve_device ends it
C14_Steps ==
    /\ \A i \in DOMAIN memberships' :
          i \notin DOMAIN memberships => memberships'[i].status = "pending"
    /\ \A u \in UserIds, c \in RequestCommunities :
          (PendingFirst(u, c) /\ ~ PendingFirst(u, c)') =>
              /\ response'.op = "approve_device"
              /\ response'.status = 200

\* as stated: every such call fails with 403
C14_Original ==
    /\ [](Serving => \A req \in SignTokenRequests :
            PendingFirst(req.user_id, req.community_id) =>
                sign_token_response(req).status = 403)
    /\ [][C14_Steps]_vars

\* every such call fails: with 404 when it names a device_id that is not
\* registered, with 403 otherwise
C14_PendingNoToken ==
    /\ [](Serving => \A req \in SignTokenRequests :
            PendingFirst(req.user_id, req.community_id) =>
                sign_token_response(req).status
                    = IF DeviceById(req.device_id) = {} THEN 404 ELSE 403)
    /\ [][C14_Steps]_vars

\* a registered device has asked for a token while its user's membership,
\* created by register_device, is still pending
C14_Witness ==
    /\ response = Err("sign_token", 403, "Access not approved")
    /\ \E u \in UserIds, c \in RequestCommunities :
          PendingFirst(u, c) /\ \E d \in devices : d.user_id = u

C15_QueryGuardsGeneration ==
    [][ \A p \in DOMAIN pending :
          \A i \in DOMAIN pending'[p].keysets :
              i \notin DOMAIN pending[p].keysets =>
                  active_keyset_first(pending'[p].keysets[i].community_id) = 0
      ]_vars

(***************************************************************************)
(* C16: a register_device call that names a device_id already registered   *)
(* answers success = false and leaves every table as it was, also when     *)
(* the request's user_id is not a user yet.                                *)
(***************************************************************************)
C16_TakenDeviceChangesNothing ==
    [][ \A req \in RegisterDeviceRequests :
          (DeviceById(req.device_id) # {} /\ register_device(req)) =>
              /\ response' = Ok("register_device", [success |-> FALSE])
              /\ UNCHANGED db ]_vars

\* a taken device_id has been refused to a user_id that is no user
C16_Witness ==
    /\ response = Ok("register_device", [success |-> FALSE])
    /\ \E u \in UserIds : UserById(u) = {}

(***************************************************************************)
(* C17: sign_token writes nothing.  A step that ends in a sign_token       *)
(* response, a token or a 404, 403 or 500, leaves users, devices,          *)
(* communities, memberships, keysets, events and nonces_seen as they were. *)
(***************************************************************************)
C17_SignTokenReadOnly ==
    [][ response'.op = "sign_token" => UNCHANGED db ]_vars

\* a token has been issued and no nonce and no event is on record
C17_Witness ==
    /\ Issued
    /\ nonces_seen = {}
    /\ events = <<>>

(***************************************************************************)
(* C18, as stated: the memberships table holds at most one row for each    *)
(* (user_id, community_id) pair.                                           *)
(***************************************************************************)
C18_OneMembershipPerPair ==
    \A i, j \in DOMAIN memberships :
        (/\ memberships[i].user_id = memberships[j].user_id
         /\ memberships[i].community_id = memberships[j].community_id) => i = j

\* the end of C18 alone: whatever the number of rows of a pair, the row
\* approve_device approves is the row sign_token consults
C18_ApprovedRowIsConsultedRow ==
    [][ \A u \in UserIds, c \in RequestCommunities :
          (approve_device(u, c) /\ response'.status = 200) =>
              /\ membership_first(u, c)' # 0
              /\ membership_approved(membership_first(u, c))' ]_vars

(***************************************************************************)
(* C19: membership status only ever moves to approved.  No step removes a  *)
(* membership row or changes whose it is; a step that changes a row's      *)
(* status is a successful approve_device and leaves it approved; an        *)
(* approved row stays approved; and approve_device for a pair with no      *)
(* membership answers 404 and changes no table.                            *)
(***************************************************************************)
C19_StatusMonotone ==
    [][ /\ \A i \in DOMAIN memberships :
              /\ i \in DOMAIN memberships'
              /\ memberships'[i].user_id = memberships[i].user_id
              /\ memberships'[i].community_id = memberships[i].community_id
              /\ memberships[i].status = "approved" =>
                    memberships'[i].status = "approved"
              /\ memberships'[i].status # memberships[i].status =>
                    /\ memberships'[i].status = "approved"
                    /\ response' = Ok("approve_device", [success |-> TRUE])
        /\ \A u \in UserIds, c \in RequestCommunities :
              (membership_first(u, c) = 0 /\ approve_device(u, c)) =>
                  /\ response' = Err("approve_device", 404, "Membership not found")
                  /\ UNCHANGED db ]_vars

\* an approved membership has stayed approved through a later
\* register_device for its pair, which put a pending row behind it
C19_Witness ==
    \E i, j \in DOMAIN memberships :
        /\ i < j
        /\ memberships[i].user_id = memberships[j].user_id
        /\ memberships[i].community_id = memberships[j].community_id
        /\ memberships[i].status = "approved"
        /\ memberships[j].status = "pending"
====
